---- MODULE Spec2Model ----
(***************************************************************************)
(* Model of the mutex server of src/main.rs: the shared registry           *)
(* (Server.mutex_to_conn), the release bus (Server.bus), the id allocator  *)
(* (Server.next_id) and one worker thread per accepted connection running  *)
(* Connection::cycle.                                                       *)
(***************************************************************************)
EXTENDS Integers, Sequences, FiniteSets

\* Number of connections that can be open at once in the model.
NConn == 2
\* Number of distinct mutex ids clients use in the model.
NKeys == 2
\* Capacity of the bus, Bus::new(1000) at main.rs:158, scaled down: a
\* broadcast blocks while some live reader has BusCap unread events.
BusCap == 2
\* usize::MAX of generate_id (main.rs:165), scaled down.
UsizeMax == 7

\* How many ids past a full round of the counter the listener hands out
\* where connections come and go.
WrapSlack == 2

IssueCap == UsizeMax + WrapSlack
Conns == 1..NConn
Keys == 1..NKeys

\* Option<usize>: None is <<>>, Some(t) is <<t>>.
None == <<>>
Timeouts == {None, <<50>>}

\* enum Command, as deserialized at main.rs:61.
Commands ==
    [command : {"Lock"}, id : Keys, timeout_ms : Timeouts]
        \cup [command : {"Release"}, id : Keys, timeout_ms : {None}]

NoCommand == [command |-> "None", id |-> 0, timeout_ms |-> None]

\* A request whose "command" tag names no variant of enum Command.
CheckRequest(k) == [command |-> "Check", id |-> k, timeout_ms |-> None]

\* What a peer can write as one request: a Command, or a Check.
Requests == Commands \cup {CheckRequest(k) : k \in Keys}

\* The bytes one stream.read returns (main.rs:56), as the sequence of
\* complete requests in them: one request, or two written back to back that
\* the transport delivers in a single read.
Buffers ==
    {<<r>> : r \in Requests} \cup {<<r1, r2>> : r1, r2 \in Commands}

\* serde_json::from_slice::<Command>: Ok only when the buffer is exactly one
\* JSON value and its tag is a variant of Command; an unknown variant, or
\* anything after the first value ("trailing characters"), is Err.
from_slice(buf) ==
    IF Len(buf) = 1 /\ buf[1] \in Commands
    THEN [ok |-> TRUE, command |-> buf[1]]
    ELSE [ok |-> FALSE, command |-> NoCommand]
NoResponse == [response |-> "None", id |-> 0, success |-> FALSE]

LockResponse(id, success) ==
    [response |-> "LockResponse", id |-> id, success |-> success]
ReleaseResponse(id, success) ==
    [response |-> "ReleaseResponse", id |-> id, success |-> success]

VARIABLES
    mutex_to_conn,  \* Server.mutex_to_conn: HashMap<MutexID, ConnectionID>
    next_id,        \* Server.next_id
    pc,             \* where each connection's worker thread is
    conn_id,        \* Connection.id (0: not accepted yet)
    locks,          \* Connection.locks
    is_alive,       \* Connection.is_alive
    receiver,       \* Connection.receiver: events broadcast and not yet read
    cur,            \* the command the worker is processing (local `command`)
    resp,           \* the response written to Connection.stream for the
                    \* command read last (NoResponse until it is written)
    visited,        \* release_all: keys its for_each has passed (kept as a
                    \* record of what the teardown released)
    mutex,          \* argument of the Server::release call blocked in broadcast
    issued,         \* the values generate_id has returned so far, in order
    peer_closed,    \* the peer has closed its end of Connection.stream and
                    \* every byte it sent has been read
    call            \* the registry call made last when Server::lock and
                    \* Server::release are exercised on their own

vars == <<mutex_to_conn, next_id, pc, conn_id, locks, is_alive, receiver,
          cur, resp, visited, mutex, issued, peer_closed, call>>

\* No registry call recorded.
NoCall ==
    [op |-> "none", key |-> 0, before |-> <<>>, ret |-> FALSE, event |-> <<>>]

\* HashMap helpers.
EmptyMap == [k \in {} |-> 0]
Insert(m, k, v) == [x \in DOMAIN m \cup {k} |-> IF x = k THEN v ELSE m[x]]
Remove(m, k) == [x \in DOMAIN m \ {k} |-> m[x]]

\* A connection whose Connection struct (and so its BusReader) exists.
Live(c) == pc[c] \notin {"none", "done", "panicked"}

\* A worker blocked inside Bus::broadcast; it holds the write lock of
\* mutex_to_conn and the mutex of the bus (main.rs:206-209).
Blocked == \E c \in Conns : pc[c] \in {"bcast_release", "bcast_release_all"}

\* Server::generate_id: the new counter value, which is also returned.
generate_id_WrapZero(n) == IF n = UsizeMax THEN 0 ELSE n + 1
generate_id_Stuck(n) == n
generate_id(n) == IF n = UsizeMax THEN 1 ELSE n + 1

\* Server::lock on registry m: [ok, map].
Server_lock_NoCheck(m, conn, k) ==
    [ok |-> TRUE, map |-> Insert(m, k, conn)]
Server_lock(m, conn, k) ==
    IF k \in DOMAIN m
    THEN [ok |-> FALSE, map |-> m]
    ELSE [ok |-> TRUE, map |-> Insert(m, k, conn)]

\* Server::release on registry m: the value returned, the registry it
\* leaves and the events it hands to Bus::broadcast.
Server_release(m, k) ==
    [ret |-> TRUE, map |-> Remove(m, k), event |-> <<k>>]

\* Bus::broadcast returns at once only if no live reader is BusCap behind.
BusHasRoom == \A c \in Conns : Live(c) => Len(receiver[c]) < BusCap
Broadcast(rx, k) ==
    [c \in Conns |-> IF Live(c) THEN Append(rx[c], k) ELSE rx[c]]

Init ==
    /\ mutex_to_conn = EmptyMap
    /\ next_id = 1
    /\ pc = [c \in Conns |-> "none"]
    /\ conn_id = [c \in Conns |-> 0]
    /\ locks = [c \in Conns |-> {}]
    /\ is_alive = [c \in Conns |-> FALSE]
    /\ receiver = [c \in Conns |-> <<>>]
    /\ cur = [c \in Conns |-> NoCommand]
    /\ resp = [c \in Conns |-> NoResponse]
    /\ visited = [c \in Conns |-> {}]
    /\ mutex = [c \in Conns |-> 0]
    /\ issued = <<>>
    /\ peer_closed = [c \in Conns |-> FALSE]
    /\ call = NoCall

\* Server::serve, one iteration: generate_id, add_rx (needs the bus mutex),
\* Connection::new, thread::spawn.
Connect(c) ==
    /\ pc[c] = "none"
    /\ ~Blocked
    /\ next_id' = generate_id(next_id)
    /\ conn_id' = [conn_id EXCEPT ![c] = next_id']
    /\ is_alive' = [is_alive EXCEPT ![c] = TRUE]
    /\ pc' = [pc EXCEPT ![c] = "read"]
    /\ issued' = Append(issued, next_id')
    /\ UNCHANGED <<peer_closed, call>>
    /\ UNCHANGED <<mutex_to_conn, locks, receiver, cur, resp, visited, mutex>>

\* Connection::send followed by the return to the top of the loop in cycle,
\* where the local `command` goes out of scope.
\* ok = FALSE: stream.write fails and its unwrap panics the worker; the
\* Connection is dropped without release_all.  With ok = TRUE the flush of
\* a TcpStream always succeeds.  newLocks and newRx are the held-sets and
\* readers as the caller left them.
Send(c, r, ok, newLocks, newRx) ==
    /\ pc' = [pc EXCEPT ![c] = IF ok THEN "read" ELSE "panicked"]
    /\ resp' = IF ok THEN [resp EXCEPT ![c] = r] ELSE resp
    /\ locks' = IF ok THEN newLocks ELSE [newLocks EXCEPT ![c] = {}]
    /\ receiver' = IF ok THEN newRx ELSE [newRx EXCEPT ![c] = <<>>]
    /\ cur' = [cur EXCEPT ![c] = NoCommand]

\* cycle: stream.read returns a buffer that deserializes as command cmd.
ReadCommand(c, cmd) ==
    /\ pc[c] = "read"
    /\ ~peer_closed[c]
    /\ pc' = [pc EXCEPT ![c] = "dispatch"]
    /\ cur' = [cur EXCEPT ![c] = cmd]
    /\ resp' = [resp EXCEPT ![c] = NoResponse]
    /\ UNCHANGED <<issued, peer_closed, call>>
    /\ UNCHANGED <<mutex_to_conn, next_id, conn_id, locks, is_alive,
                   receiver, visited, mutex>>

\* cycle: stream.read returns 0 bytes: break, then release_all starts.
ReadEof(c) ==
    /\ pc[c] = "read"
    /\ pc' = [pc EXCEPT ![c] = "release_all"]
    /\ resp' = [resp EXCEPT ![c] = NoResponse]
    /\ peer_closed' = [peer_closed EXCEPT ![c] = TRUE]
    /\ UNCHANGED <<issued, call>>
    /\ UNCHANGED <<mutex_to_conn, next_id, conn_id, locks, is_alive,
                   receiver, cur, visited, mutex>>

\* The peer closes its end while the worker is inside Connection::lock,
\* between two reads of the stream; nothing tells the worker until the next
\* stream.read returns 0.
PeerClose(c) ==
    /\ pc[c] \in {"wait", "retry"}
    /\ ~peer_closed[c]
    /\ peer_closed' = [peer_closed EXCEPT ![c] = TRUE]
    /\ UNCHANGED <<mutex_to_conn, next_id, pc, conn_id, locks, is_alive,
                   receiver, cur, resp, visited, mutex, issued, call>>

\* cycle: the bytes read do not deserialize as a Command: is_alive = false,
\* the loop ends, then release_all starts.
ReadMalformed(c) ==
    /\ pc[c] = "read"
    /\ ~peer_closed[c]
    /\ is_alive' = [is_alive EXCEPT ![c] = FALSE]
    /\ pc' = [pc EXCEPT ![c] = "release_all"]
    /\ resp' = [resp EXCEPT ![c] = NoResponse]
    /\ UNCHANGED <<issued, peer_closed, call>>
    /\ UNCHANGED <<mutex_to_conn, next_id, conn_id, locks, receiver, cur,
                   visited, mutex>>

\* cycle: one stream.read returning buf, deserialized as a whole.
Read(c, buf) ==
    IF from_slice(buf).ok
    THEN ReadCommand(c, from_slice(buf).command)
    ELSE ReadMalformed(c)

\* cycle: stream.read fails; its unwrap panics the worker, the Connection is
\* dropped and release_all never runs.
ReadFail(c) ==
    /\ pc[c] = "read"
    /\ pc' = [pc EXCEPT ![c] = "panicked"]
    /\ locks' = [locks EXCEPT ![c] = {}]
    /\ receiver' = [receiver EXCEPT ![c] = <<>>]
    /\ resp' = [resp EXCEPT ![c] = NoResponse]
    /\ UNCHANGED <<issued, peer_closed, call>>
    /\ UNCHANGED <<mutex_to_conn, next_id, conn_id, is_alive, cur, visited,
                   mutex>>

\* cycle, Command::Lock with timeout_ms = Some(_): failure response at once.
LockTimeout_Close(c) ==
    /\ pc[c] = "dispatch"
    /\ cur[c].command = "Lock"
    /\ cur[c].timeout_ms # None
    /\ is_alive' = [is_alive EXCEPT ![c] = FALSE]
    /\ pc' = [pc EXCEPT ![c] = "release_all"]
    /\ resp' = [resp EXCEPT ![c] = LockResponse(cur[c].id, FALSE)]
    /\ cur' = [cur EXCEPT ![c] = NoCommand]
    /\ UNCHANGED <<issued, peer_closed, call>>
    /\ UNCHANGED <<mutex_to_conn, next_id, conn_id, locks, receiver, visited,
                   mutex>>
LockTimeout(c) ==
    /\ pc[c] = "dispatch"
    /\ cur[c].command = "Lock"
    /\ cur[c].timeout_ms # None
    /\ \E ok \in BOOLEAN :
           Send(c, LockResponse(cur[c].id, FALSE), ok, locks, receiver)
    /\ UNCHANGED <<issued, peer_closed, call>>
    /\ UNCHANGED <<mutex_to_conn, next_id, conn_id, is_alive, visited, mutex>>

\* Connection::lock, key already in self.locks: true without a registry call.
LockHeld(c) ==
    /\ pc[c] = "dispatch"
    /\ cur[c].command = "Lock"
    /\ cur[c].timeout_ms = None
    /\ cur[c].id \in locks[c]
    /\ \E ok \in BOOLEAN :
           Send(c, LockResponse(cur[c].id, TRUE), ok, locks, receiver)
    /\ UNCHANGED <<issued, peer_closed, call>>
    /\ UNCHANGED <<mutex_to_conn, next_id, conn_id, is_alive, visited, mutex>>

\* Connection::lock, one turn of the outer loop: Server::lock, then either
\* locks.insert and the response, or the wait on the receiver.
TryAcquire_FailFast(c) ==
    /\ \/ /\ pc[c] = "dispatch"
          /\ cur[c].command = "Lock"
          /\ cur[c].timeout_ms = None
          /\ cur[c].id \notin locks[c]
       \/ pc[c] = "retry"
    /\ ~Blocked
    /\ LET k == cur[c].id
           r == Server_lock(mutex_to_conn, conn_id[c], k)
       IN  /\ mutex_to_conn' = r.map
           /\ \E ok \in BOOLEAN :
                  Send(c, LockResponse(k, r.ok), ok,
                       [locks EXCEPT ![c] = IF r.ok THEN @ \cup {k} ELSE @],
                       receiver)
    /\ UNCHANGED <<issued, peer_closed, call>>
    /\ UNCHANGED <<next_id, conn_id, is_alive, visited, mutex>>
TryAcquire(c) ==
    /\ \/ /\ pc[c] = "dispatch"
          /\ cur[c].command = "Lock"
          /\ cur[c].timeout_ms = None
          /\ cur[c].id \notin locks[c]
       \/ pc[c] = "retry"
    /\ ~Blocked
    /\ LET k == cur[c].id
           r == Server_lock(mutex_to_conn, conn_id[c], k)
       IN  /\ mutex_to_conn' = r.map
           /\ IF r.ok
              THEN \E ok \in BOOLEAN :
                       Send(c, LockResponse(k, TRUE), ok,
                            [locks EXCEPT ![c] = @ \cup {k}], receiver)
              ELSE /\ pc' = [pc EXCEPT ![c] = "wait"]
                   /\ UNCHANGED <<locks, receiver, resp, cur>>
    /\ UNCHANGED <<issued, peer_closed, call>>
    /\ UNCHANGED <<next_id, conn_id, is_alive, visited, mutex>>

\* Connection::lock, inner loop: receiver.recv() takes the oldest unread
\* event; a matching one ends the inner loop.
WaitRecv(c) ==
    /\ pc[c] = "wait"
    /\ receiver[c] # <<>>
    /\ receiver' = [receiver EXCEPT ![c] = Tail(@)]
    /\ pc' = [pc EXCEPT ![c] =
                 IF Head(receiver[c]) = cur[c].id THEN "retry" ELSE "wait"]
    /\ UNCHANGED <<issued, peer_closed, call>>
    /\ UNCHANGED <<mutex_to_conn, next_id, conn_id, locks, is_alive, cur,
                   resp, visited, mutex>>

\* Connection::release, key not in self.locks.
ReleaseNotHeld_Releases(c) ==
    /\ pc[c] = "dispatch"
    /\ cur[c].command = "Release"
    /\ cur[c].id \notin locks[c]
    /\ ~Blocked
    /\ BusHasRoom
    /\ mutex_to_conn' = Remove(mutex_to_conn, cur[c].id)
    /\ \E ok \in BOOLEAN :
           Send(c, ReleaseResponse(cur[c].id, FALSE), ok, locks,
                Broadcast(receiver, cur[c].id))
    /\ UNCHANGED <<issued, peer_closed, call>>
    /\ UNCHANGED <<next_id, conn_id, is_alive, visited, mutex>>
ReleaseNotHeld(c) ==
    /\ pc[c] = "dispatch"
    /\ cur[c].command = "Release"
    /\ cur[c].id \notin locks[c]
    /\ \E ok \in BOOLEAN :
           Send(c, ReleaseResponse(cur[c].id, FALSE), ok, locks, receiver)
    /\ UNCHANGED <<issued, peer_closed, call>>
    /\ UNCHANGED <<mutex_to_conn, next_id, conn_id, is_alive, visited, mutex>>

\* Connection::release, key in self.locks: locks.remove, Server::release
\* (registry remove, then broadcast under the same write lock), response.
\* With the bus full the worker stays in broadcast, holding both locks.
ReleaseHeld_KeepsLock(c) ==
    /\ pc[c] = "dispatch"
    /\ cur[c].command = "Release"
    /\ cur[c].id \in locks[c]
    /\ ~Blocked
    /\ BusHasRoom
    /\ mutex_to_conn' = Remove(mutex_to_conn, cur[c].id)
    /\ \E ok \in BOOLEAN :
           Send(c, ReleaseResponse(cur[c].id, TRUE), ok, locks,
                Broadcast(receiver, cur[c].id))
    /\ UNCHANGED <<issued, peer_closed, call>>
    /\ UNCHANGED <<next_id, conn_id, is_alive, visited, mutex>>
ReleaseHeld(c) ==
    /\ pc[c] = "dispatch"
    /\ cur[c].command = "Release"
    /\ cur[c].id \in locks[c]
    /\ ~Blocked
    /\ LET k == cur[c].id
           held == [locks EXCEPT ![c] = @ \ {k}]
       IN  /\ mutex_to_conn' = Server_release(mutex_to_conn, k).map
           /\ IF BusHasRoom
              THEN /\ \E ok \in BOOLEAN :
                          Send(c, ReleaseResponse(k, TRUE), ok, held,
                               Broadcast(receiver, k))
                   /\ UNCHANGED mutex
              ELSE /\ pc' = [pc EXCEPT ![c] = "bcast_release"]
                   /\ mutex' = [mutex EXCEPT ![c] = k]
                   /\ locks' = held
                   /\ UNCHANGED <<receiver, resp, cur>>
    /\ UNCHANGED <<issued, peer_closed, call>>
    /\ UNCHANGED <<next_id, conn_id, is_alive, visited>>

\* release_all, one turn of the for_each: Server::release of a key of
\* self.locks not passed yet (HashSet order is arbitrary).
ReleaseAllStep_NoRemove(c) ==
    /\ pc[c] = "release_all"
    /\ visited[c] # locks[c]
    /\ ~Blocked
    /\ BusHasRoom
    /\ \E k \in locks[c] \ visited[c] :
           /\ receiver' = Broadcast(receiver, k)
           /\ visited' = [visited EXCEPT ![c] = @ \cup {k}]
    /\ UNCHANGED <<issued, peer_closed, call>>
    /\ UNCHANGED <<mutex_to_conn, pc, mutex, next_id, conn_id, locks,
                   is_alive, cur, resp>>
ReleaseAllStep(c) ==
    /\ pc[c] = "release_all"
    /\ visited[c] # locks[c]
    /\ ~Blocked
    /\ \E k \in locks[c] \ visited[c] :
           /\ mutex_to_conn' = Server_release(mutex_to_conn, k).map
           /\ IF BusHasRoom
              THEN /\ receiver' = Broadcast(receiver, k)
                   /\ visited' = [visited EXCEPT ![c] = @ \cup {k}]
                   /\ UNCHANGED <<pc, mutex>>
              ELSE /\ pc' = [pc EXCEPT ![c] = "bcast_release_all"]
                   /\ mutex' = [mutex EXCEPT ![c] = k]
                   /\ UNCHANGED <<receiver, visited>>
    /\ UNCHANGED <<issued, peer_closed, call>>
    /\ UNCHANGED <<next_id, conn_id, locks, is_alive, cur, resp>>

\* release_all after the last key: locks.clear(); cycle returns and the
\* Connection (with its BusReader) is dropped.
ReleaseAllEnd(c) ==
    /\ pc[c] = "release_all"
    /\ visited[c] = locks[c]
    /\ locks' = [locks EXCEPT ![c] = {}]
    /\ receiver' = [receiver EXCEPT ![c] = <<>>]
    /\ pc' = [pc EXCEPT ![c] = "done"]
    /\ UNCHANGED <<issued, peer_closed, call>>
    /\ UNCHANGED <<mutex_to_conn, next_id, conn_id, is_alive, cur, resp,
                   visited, mutex>>

\* Bus::broadcast resumes once every live reader has room: the event is
\* appended, Server::release returns and its caller continues.
BroadcastResume(c) ==
    /\ pc[c] \in {"bcast_release", "bcast_release_all"}
    /\ BusHasRoom
    /\ mutex' = [mutex EXCEPT ![c] = 0]
    /\ IF pc[c] = "bcast_release"
       THEN /\ \E ok \in BOOLEAN :
                   Send(c, ReleaseResponse(mutex[c], TRUE), ok, locks,
                        Broadcast(receiver, mutex[c]))
            /\ UNCHANGED visited
       ELSE /\ receiver' = Broadcast(receiver, mutex[c])
            /\ visited' = [visited EXCEPT ![c] = @ \cup {mutex[c]}]
            /\ pc' = [pc EXCEPT ![c] = "release_all"]
            /\ UNCHANGED <<locks, resp, cur>>
    /\ UNCHANGED <<issued, peer_closed, call>>
    /\ UNCHANGED <<mutex_to_conn, next_id, conn_id, is_alive>>

\* The steps a worker takes on its own, without input from its peer.
Worker(c) ==
    \/ LockTimeout(c)
    \/ LockHeld(c)
    \/ TryAcquire(c)
    \/ WaitRecv(c)
    \/ ReleaseNotHeld(c)
    \/ ReleaseHeld(c)
    \/ ReleaseAllStep(c)
    \/ ReleaseAllEnd(c)
    \/ BroadcastResume(c)

Next ==
    \E c \in Conns :
        \/ Connect(c)
        \/ \E buf \in Buffers : Read(c, buf)
        \/ ReadEof(c)
        \/ PeerClose(c)
        \/ ReadFail(c)
        \/ Worker(c)

Spec == Init /\ [][Next]_vars

\* The thread of connection c has ended and its Connection is gone; the
\* listener's next accepted stream may take its place.  IssueCap bounds how
\* many ids are handed out in all.
Recycle(c) ==
    /\ pc[c] \in {"done", "panicked"}
    /\ Len(issued) < IssueCap
    /\ pc' = [pc EXCEPT ![c] = "none"]
    /\ conn_id' = [conn_id EXCEPT ![c] = 0]
    /\ is_alive' = [is_alive EXCEPT ![c] = FALSE]
    /\ resp' = [resp EXCEPT ![c] = NoResponse]
    /\ visited' = [visited EXCEPT ![c] = {}]
    /\ peer_closed' = [peer_closed EXCEPT ![c] = FALSE]
    /\ UNCHANGED <<mutex_to_conn, next_id, locks, receiver, cur, mutex,
                   issued, call>>

\* The listener and the life of connections that send nothing: accepted,
\* then closed by the peer or killed by a read error, as many times as it
\* takes for the counter of generate_id to wrap.
AllocNext ==
    \E c \in Conns :
        \/ Connect(c)
        \/ ReadEof(c)
        \/ ReadFail(c)
        \/ ReleaseAllEnd(c)
        \/ Recycle(c)

AllocSpec == Init /\ [][AllocNext]_vars

\* Server::lock and Server::release exercised on their own, as functions of
\* the registry: every registry over Keys with owners in ConnIDs is a start,
\* and each step is one call whose arguments and results call records.
ConnIDs == 1..UsizeMax

RegMaps ==
    UNION {[D -> ConnIDs] : D \in SUBSET Keys}

RegInit ==
    /\ mutex_to_conn \in RegMaps
    /\ next_id = 1
    /\ pc = [c \in Conns |-> "none"]
    /\ conn_id = [c \in Conns |-> 0]
    /\ locks = [c \in Conns |-> {}]
    /\ is_alive = [c \in Conns |-> FALSE]
    /\ receiver = [c \in Conns |-> <<>>]
    /\ cur = [c \in Conns |-> NoCommand]
    /\ resp = [c \in Conns |-> NoResponse]
    /\ visited = [c \in Conns |-> {}]
    /\ mutex = [c \in Conns |-> 0]
    /\ issued = <<>>
    /\ peer_closed = [c \in Conns |-> FALSE]
    /\ call = NoCall

RegRelease(k) ==
    /\ LET r == Server_release(mutex_to_conn, k)
       IN  /\ mutex_to_conn' = r.map
           /\ call' = [op |-> "release", key |-> k, before |-> mutex_to_conn,
                       ret |-> r.ret, event |-> r.event]
    /\ UNCHANGED <<next_id, pc, conn_id, locks, is_alive, receiver, cur,
                   resp, visited, mutex, issued, peer_closed>>

RegLock(conn, k) ==
    /\ LET r == Server_lock(mutex_to_conn, conn, k)
       IN  /\ mutex_to_conn' = r.map
           /\ call' = [op |-> "lock", key |-> k, before |-> mutex_to_conn,
                       ret |-> r.ok, event |-> <<>>]
    /\ UNCHANGED <<next_id, pc, conn_id, locks, is_alive, receiver, cur,
                   resp, visited, mutex, issued, peer_closed>>

RegNext ==
    \E k \in Keys :
        \/ RegRelease(k)
        \/ \E conn \in ConnIDs : RegLock(conn, k)

RegSpec == RegInit /\ [][RegNext]_vars

\* Every thread the operating system can run is eventually run: a worker
\* that stays able to take a step takes it.  Nothing obliges a peer to send,
\* to close or to fail.
FairSpec == Spec /\ \A c \in Conns : WF_vars(Worker(c))

TypeOK ==
    /\ DOMAIN mutex_to_conn \subseteq Keys
    /\ \A k \in DOMAIN mutex_to_conn : mutex_to_conn[k] \in 1..UsizeMax
    /\ next_id \in 1..UsizeMax
    /\ pc \in [Conns -> {"none", "read", "dispatch", "wait", "retry",
                         "bcast_release", "release_all",
                         "bcast_release_all", "done", "panicked"}]
    /\ \A c \in Conns : locks[c] \subseteq Keys /\ visited[c] \subseteq Keys
    /\ \A c \in Conns : Len(receiver[c]) <= BusCap

\* The registry entries whose value is the id of connection c.
OwnedBy(c) == {k \in DOMAIN mutex_to_conn : mutex_to_conn[k] = conn_id[c]}

\* Key k is held by a connection other than c.
HeldByOther(c, k) == \E d \in Conns \ {c} : k \in locks[d]

\* Connection c leaves "dispatch" in this step with its stream still usable.
Handled(c) == pc[c] = "dispatch" /\ pc'[c] \notin {"dispatch", "panicked"}

\* Connection c is in the inner loop of Connection::lock, or about to
\* re-attempt Server::lock, for key k.
Waiting(c, k) == pc[c] \in {"wait", "retry"} /\ cur[c].id = k

InSeq(k, q) == \E i \in 1..Len(q) : q[i] = k

\* The keys of c's held-set that c's release_all has not yet handed to
\* Server::release (release_all clears self.locks only after its last call).
Holding(c) ==
    IF pc[c] \in {"release_all", "bcast_release_all"}
    THEN locks[c] \ (visited[c] \cup {mutex[c]})
    ELSE locks[c]

-----------------------------------------------------------------------------
\* C1: exclusivity.  In every reachable state, for every key k, at most one
\* connection has k in its held-set (Connection.locks), whatever the
\* interleaving of Lock, Release and teardown.
C1_Exclusivity ==
    \A k \in Keys : Cardinality({c \in Conns : k \in locks[c]}) <= 1

\* C1, amended: for every key k, at most one connection has k in its
\* held-set without having already released it in its teardown.
C1_ExclusivityOutsideTeardown ==
    \A k \in Keys : Cardinality({c \in Conns : k \in Holding(c)}) <= 1

\* A contended key: a holds k with its success response sent, b lost the
\* Server::lock call for k and waits.
C1_Witness ==
    \E a, b \in Conns, k \in Keys :
        /\ a # b
        /\ k \in locks[a]
        /\ resp[a] = LockResponse(k, TRUE)
        /\ pc[b] = "wait"
        /\ cur[b].id = k

C3_TransportErrorCleanup ==
    \A c \in Conns : pc[c] = "panicked" => OwnedBy(c) = {}

\* C4: registry/held-set agreement.  Whenever no connection is inside
\* release_all or Server::release, k is in the held-set of a live connection
\* c iff the registry maps k to c's id, and k has a registry entry iff some
\* live connection has k in its held-set.
C4_RegistryHeldSetAgreement ==
    (\A c \in Conns :
         pc[c] \notin {"release_all", "bcast_release", "bcast_release_all"})
    =>
    /\ \A c \in Conns : Live(c) => locks[c] = OwnedBy(c)
    /\ \A k \in Keys :
           k \in DOMAIN mutex_to_conn <=>
               \E c \in Conns : Live(c) /\ k \in locks[c]

\* C5: notifier overflow is never fatal.  A Release (explicit or in
\* release_all) that has removed its registry entry always completes: a
\* worker inside Bus::broadcast, which holds the registry write lock,
\* eventually leaves it.
C5_ReleaseCompletes ==
    \A c \in Conns :
        (pc[c] \in {"bcast_release", "bcast_release_all"})
            ~> (pc[c] \notin {"bcast_release", "bcast_release_all"})

\* C6: wake correctness.  If b waits in Lock(k) and k has been released (k
\* has no registry entry and the release event for k is in b's subscription),
\* then eventually b holds k, unless another connection acquires k.
C6_WakeCorrectness ==
    \A b \in Conns, k \in Keys :
        (Waiting(b, k) /\ k \notin DOMAIN mutex_to_conn
             /\ (pc[b] = "retry" \/ InSeq(k, receiver[b])))
            ~> (k \in locks[b] \/ k \in DOMAIN mutex_to_conn)

\* C7: the Lock wait never blocks purely on notification.  If b waits in
\* Lock(k), k has no registry entry and no release event for k is in b's
\* subscription, then eventually b holds k, unless another connection
\* acquires k.
C7_WaitNotPurelyOnNotification ==
    \A b \in Conns, k \in Keys :
        (pc[b] = "wait" /\ cur[b].id = k /\ k \notin DOMAIN mutex_to_conn
             /\ ~InSeq(k, receiver[b]))
            ~> (k \in locks[b] \/ k \in DOMAIN mutex_to_conn)

\* C8: re-entrancy.  A Lock(k), with or without timeout_ms, handled by a
\* connection that has k in its held-set is answered success=true at once,
\* and the registry and the held-sets are unchanged.
C8_Reentrancy ==
    [][\A c \in Conns :
           (Handled(c) /\ cur[c].command = "Lock" /\ cur[c].id \in locks[c])
           => /\ pc'[c] = "read"
              /\ resp'[c] = LockResponse(cur[c].id, TRUE)
              /\ mutex_to_conn' = mutex_to_conn
              /\ locks' = locks]_vars

\* C9: Lock on a free key succeeds.  A Lock(k), with or without timeout_ms,
\* handled when k is not in the connection's held-set and has no registry
\* entry inserts k -> id, adds k to the held-set and answers success=true.
C9_LockFreeKeySucceeds ==
    [][\A c \in Conns :
           (Handled(c) /\ cur[c].command = "Lock" /\ cur[c].id \notin locks[c]
                /\ cur[c].id \notin DOMAIN mutex_to_conn)
           => /\ pc'[c] = "read"
              /\ resp'[c] = LockResponse(cur[c].id, TRUE)
              /\ cur[c].id \in DOMAIN mutex_to_conn'
              /\ mutex_to_conn'[cur[c].id] = conn_id[c]
              /\ cur[c].id \in locks'[c]]_vars

\* C10: timeout abandons only the request.  A Lock(k, timeout_ms = Some)
\* read while another connection holds k is eventually answered (or the
\* stream fails); whenever it is answered the response is success=false,
\* the connection is back at the top of its loop with is_alive still true,
\* and the registry and the held-sets are unchanged.
C10_TimeoutAbandonsOnlyRequest ==
    /\ [][\A c \in Conns :
              (Handled(c) /\ cur[c].command = "Lock"
                   /\ cur[c].timeout_ms # None /\ HeldByOther(c, cur[c].id))
              => /\ pc'[c] = "read"
                 /\ resp'[c] = LockResponse(cur[c].id, FALSE)
                 /\ is_alive'[c]
                 /\ mutex_to_conn' = mutex_to_conn
                 /\ locks' = locks]_vars
    /\ \A c \in Conns :
           (pc[c] = "dispatch" /\ cur[c].command = "Lock"
                /\ cur[c].timeout_ms # None)
               ~> (pc[c] \in {"read", "panicked"})

\* The failure response to a Lock with timeout has been sent for a key that
\* another connection holds, and the requester is at the top of its loop,
\* alive, with its own lock on the other key intact.
C10_Witness ==
    \E c, d \in Conns, k \in Keys :
        /\ c # d
        /\ k \in locks[d]
        /\ pc[c] = "read"
        /\ is_alive[c]
        /\ resp[c] = LockResponse(k, FALSE)
        /\ locks[c] = Keys \ {k}

\* Connection c's Release of its held key is answered in this step, either
\* straight from "dispatch" or after its broadcast was blocked.
ReleaseAnswered(c) ==
    /\ cur[c].command = "Release"
    /\ \/ pc[c] = "dispatch" /\ cur[c].id \in locks[c]
       \/ pc[c] = "bcast_release"
    /\ pc'[c] = "read"

\* C11: release only by the holder.  A Release(k) handled by a connection
\* that does not have k in its held-set is answered success=false; the
\* registry, every held-set and every subscription are unchanged (no release
\* event) and the connection stays alive at the top of its loop.
C11_ReleaseOnlyByHolder ==
    [][\A c \in Conns :
           (Handled(c) /\ cur[c].command = "Release"
                /\ cur[c].id \notin locks[c])
           => /\ pc'[c] = "read"
              /\ resp'[c] = ReleaseResponse(cur[c].id, FALSE)
              /\ is_alive'[c] = is_alive[c]
              /\ mutex_to_conn' = mutex_to_conn
              /\ locks' = locks
              /\ receiver' = receiver]_vars

\* The failure response to a Release of a key that another connection
\* holds, with that holder's registry entry still in place.
C11_Witness ==
    \E c, d \in Conns, k \in Keys :
        /\ c # d
        /\ pc[c] = "read"
        /\ is_alive[c]
        /\ resp[c] = ReleaseResponse(k, FALSE)
        /\ k \in locks[d]
        /\ k \in DOMAIN mutex_to_conn
        /\ mutex_to_conn[k] = conn_id[d]

\* C12: idempotent release.  When the Release(k) of a connection that holds
\* k is answered, the answer is success=true, k has no registry entry and k
\* is not in the held-set; a Release(k) read right after that answer finds k
\* still outside the held-set, is answered success=false and changes neither
\* the registry nor any held-set.
C12_IdempotentRelease ==
    [][\A c \in Conns, k \in Keys :
           /\ (ReleaseAnswered(c) /\ cur[c].id = k)
              => /\ resp'[c] = ReleaseResponse(k, TRUE)
                 /\ k \notin DOMAIN mutex_to_conn'
                 /\ k \notin locks'[c]
           /\ (pc[c] = "read" /\ resp[c] = ReleaseResponse(k, TRUE)
                   /\ pc'[c] = "dispatch" /\ cur'[c].command = "Release"
                   /\ cur'[c].id = k)
              => k \notin locks'[c]
           /\ (Handled(c) /\ cur[c].command = "Release" /\ cur[c].id = k
                   /\ k \notin locks[c])
              => /\ resp'[c] = ReleaseResponse(k, FALSE)
                 /\ mutex_to_conn' = mutex_to_conn
                 /\ locks' = locks]_vars

\* The only connection ever accepted has released k (its own subscription
\* holds the event) and has since been answered success=false for k.
C12_Witness ==
    \E c \in Conns, k \in Keys :
        /\ \A d \in Conns \ {c} : pc[d] = "none"
        /\ pc[c] = "read"
        /\ resp[c] = ReleaseResponse(k, FALSE)
        /\ InSeq(k, receiver[c])
        /\ k \notin DOMAIN mutex_to_conn

\* Connection c is inside a Lock request for k that carries no timeout_ms.
LockingNoTimeout(c, k) ==
    /\ pc[c] \in {"dispatch", "wait", "retry"}
    /\ cur[c] = [command |-> "Lock", id |-> k, timeout_ms |-> None]

\* C20: a Lock(k) without timeout_ms is never answered success=false.  Each
\* step of a connection inside such a request either sends nothing and
\* leaves it inside the request (or dead on a transport failure), or sends
\* LockResponse(k, true) with k in its held-set and the registry mapping k
\* to its id; a retry that finds k taken again goes back to waiting.
C20_LockNeverFails ==
    [][\A c \in Conns, k \in Keys :
           LockingNoTimeout(c, k)
           => /\ resp'[c] \in {NoResponse, LockResponse(k, TRUE)}
              /\ resp'[c] = NoResponse
                 => /\ pc'[c] \in {"dispatch", "wait", "retry", "panicked"}
                    /\ pc'[c] # "panicked" => cur'[c] = cur[c]
              /\ resp'[c] = LockResponse(k, TRUE)
                 => /\ pc'[c] = "read"
                    /\ k \in locks'[c]
                    /\ k \in DOMAIN mutex_to_conn'
                    /\ mutex_to_conn'[k] = conn_id[c]
              /\ (pc[c] = "retry" /\ pc'[c] # "retry"
                      /\ k \in DOMAIN mutex_to_conn)
                 => pc'[c] = "wait"]_vars

\* A waiter that was woken by a release of k, retried, found k taken again
\* and is back in the wait loop with nothing sent.
C20_Witness ==
    \E c, d \in Conns, k \in Keys :
        /\ c # d
        /\ pc[c] = "wait"
        /\ cur[c] = [command |-> "Lock", id |-> k, timeout_ms |-> None]
        /\ resp[c] = NoResponse
        /\ k \in locks[d]
        /\ InSeq(k, receiver[d])
        /\ ~InSeq(k, receiver[c])

\* Connection c is Running: its thread is in the loop of cycle, not in
\* release_all, not finished and not dead.
Running(c) ==
    /\ is_alive[c]
    /\ pc[c] \in {"read", "dispatch", "wait", "retry", "bcast_release"}

\* C13: Check is a read-only query.  A read that returns a single Check(k)
\* request leaves the registry and every held-set unchanged and leaves the
\* requesting connection Running.
C13_CheckReadOnly ==
    [][\A c \in Conns, k \in Keys :
           Read(c, <<CheckRequest(k)>>)
           => /\ mutex_to_conn' = mutex_to_conn
              /\ locks' = locks
              /\ Running(c)']_vars

\* C18: framing is independent of chunking.  A read that returns two valid
\* requests written back to back leaves the connection Running with its
\* held-set intact and the first of them under execution.
C18_FramingIndependentOfChunking ==
    [][\A c \in Conns, r1, r2 \in Commands :
           Read(c, <<r1, r2>>)
           => /\ Running(c)'
              /\ locks'[c] = locks[c]
              /\ cur'[c] = r1]_vars

\* C15: disconnect while waiting.  A connection whose peer has closed never
\* adds a key to its held-set, and a connection whose peer closed while it
\* was in the Lock wait loop ends (its thread finishes or dies) owning no
\* registry entry.
C15_DisconnectWhileWaiting ==
    /\ [][\A c \in Conns :
              peer_closed[c] => locks'[c] \subseteq locks[c]]_vars
    /\ \A c \in Conns :
           (peer_closed[c] /\ pc[c] \in {"wait", "retry"})
               ~> (pc[c] \in {"done", "panicked"} /\ OwnedBy(c) = {})

\* C16: registry release of an unheld key is a no-op.  After a
\* Server::release(k) made when k had no registry entry, the call has
\* returned false, the registry is as it was and no event was broadcast; and
\* whenever a release broadcast an event for k, k had an entry before.
C16_ReleaseUnheldNoOp ==
    call.op = "release"
    => /\ call.key \notin DOMAIN call.before
          => /\ call.ret = FALSE
             /\ mutex_to_conn = call.before
             /\ call.event = <<>>
       /\ call.event # <<>> => call.key \in DOMAIN call.before

\* Connection c takes a step of its termination: a turn of release_all, its
\* end, the resumption of its blocked broadcast, or the panic of its thread.
Terminating(c) ==
    \/ pc[c] \in {"release_all", "bcast_release_all"} /\ pc'[c] # pc[c]
    \/ pc[c] = "release_all" /\ visited'[c] # visited[c]
    \/ pc[c] # "panicked" /\ pc'[c] = "panicked"

\* C17: termination isolation.  A step of the termination of connection c
\* removes from the registry only keys of c's own held-set, changes no
\* other entry (a thread that dies in the write of a LockResponse has just
\* added its own) and no other held-set; and a termination that has begun
\* does not keep the registry and the bus locked for ever: it ends.
C17_TerminationIsolation ==
    /\ [][\A c \in Conns :
              Terminating(c)
              => /\ \A k \in DOMAIN mutex_to_conn :
                        IF k \in DOMAIN mutex_to_conn'
                        THEN mutex_to_conn'[k] = mutex_to_conn[k]
                        ELSE k \in locks[c]
                 /\ \A k \in DOMAIN mutex_to_conn' \ DOMAIN mutex_to_conn :
                        mutex_to_conn'[k] = conn_id[c]
                 /\ \A d \in Conns \ {c} : locks'[d] = locks[d]]_vars
    /\ \A c \in Conns :
           pc[c] \in {"release_all", "bcast_release_all"}
               ~> pc[c] = "done"

\* C14 as stated: generate_id returns the counter's value and then
\* increments it, so the i-th id issued is i, counted round from 1 to the
\* maximum and back to 1.
C14_ReturnsThenIncrements ==
    \A i \in 1..Len(issued) : issued[i] = ((i - 1) % UsizeMax) + 1

\* C14: generate_id increments the counter (or sets it to 1 when it holds
\* the maximum) and returns the new value: from the initial counter 1 the
\* ids issued are 2, 3, ..., the maximum, then 1, 2, ...; the counter always
\* holds the id issued last, and 0 is never issued.
C14_AllocatorSequence ==
    /\ \A i \in 1..Len(issued) :
           /\ issued[i] = (i % UsizeMax) + 1
           /\ issued[i] # 0
    /\ issued # <<>> => next_id = issued[Len(issued)]

\* The counter has wrapped: the maximum was issued, then 1, then 2 again.
C14_Witness ==
    /\ Len(issued) > UsizeMax
    /\ issued[UsizeMax - 1] = UsizeMax
    /\ issued[UsizeMax] = 1

\* C19 as stated: in every reachable state no two open connections have the
\* same id, and no id is issued twice before the counter wraps.
C19_UniqueAmongOpen ==
    /\ \A c, d \in Conns :
           (c # d /\ Live(c) /\ Live(d)) => conn_id[c] # conn_id[d]
    /\ \A i, j \in 1..Len(issued) :
           (i < j /\ j <= UsizeMax) => issued[i] # issued[j]

\* C19: until generate_id has been called more than usize::MAX times, no id
\* is issued twice and no two open connections have the same id.
C19_UniqueUntilWrap ==
    /\ \A i, j \in 1..Len(issued) :
           (i < j /\ j <= UsizeMax) => issued[i] # issued[j]
    /\ Len(issued) <= UsizeMax
       => \A c, d \in Conns :
              (c # d /\ Live(c) /\ Live(d)) => conn_id[c] # conn_id[d]

\* Every id has been issued once, the last while an earlier connection was
\* still open, and all connections are open.
C19_Witness ==
    /\ Len(issued) = UsizeMax
    /\ \A c \in Conns : Live(c)
    /\ \E c \in Conns : conn_id[c] = issued[UsizeMax]
====
